---- MODULE Spec2Model ----
(***************************************************************************)
(* Client scripts of ozerpan_ercom_sync: the Customer form's compounded    *)
(* discount aggregation, the list-view buttons that issue remote calls,    *)
(* and the Sales Order form's copy of the customer's discount.             *)
(*                                                                         *)
(* JavaScript numbers are IEEE-754 binary64 values.  The arithmetic of     *)
(* calculate_total_discount is therefore modelled bit-exactly: a number is *)
(* a sign, a 53-bit significand and a binary exponent, and every operator  *)
(* rounds to nearest, ties to even.  The exponent range (overflow,         *)
(* subnormals) and NaN are not modelled: with the rates drawn below every  *)
(* intermediate value is 0 or lies between 2^-60 and 2^9.                   *)
(***************************************************************************)
EXTENDS Integers, Sequences, FiniteSets, TLC

(***************************************************************************)
(* Natural numbers of any size: little-endian sequences of limbs in        *)
(* 0..Base-1 with no leading zero limb (<<>> is 0).  They carry the        *)
(* significands, whose products do not fit TLC's 32-bit integers.          *)
(***************************************************************************)
Base == 2^14

LimbBits == CHOOSE k \in 1..30 : 2^k = Base

\* the number of bits of a limb
IntBitLen(n) == CHOOSE k \in 0..LimbBits : n < 2^k /\ (k = 0 \/ 2^(k - 1) <= n)

RECURSIVE BNorm(_)
BNorm(a) ==
    IF a = <<>> THEN a
    ELSE IF a[Len(a)] = 0 THEN BNorm(SubSeq(a, 1, Len(a) - 1))
    ELSE a

RECURSIVE BFromInt(_)
BFromInt(n) ==
    IF n = 0 THEN <<>> ELSE <<n % Base>> \o BFromInt(n \div Base)

RECURSIVE BAddC(_, _, _)
BAddC(a, b, c) ==
    IF a = <<>> /\ b = <<>> THEN (IF c = 0 THEN <<>> ELSE <<c>>)
    ELSE LET x == IF a = <<>> THEN 0 ELSE Head(a)
             y == IF b = <<>> THEN 0 ELSE Head(b)
             s == x + y + c
         IN  <<s % Base>> \o BAddC(IF a = <<>> THEN a ELSE Tail(a),
                                   IF b = <<>> THEN b ELSE Tail(b),
                                   s \div Base)

BAdd(a, b) == BAddC(a, b, 0)

\* a - b for a >= b
RECURSIVE BSubC(_, _, _)
BSubC(a, b, c) ==
    IF a = <<>> THEN <<>>
    ELSE LET y == IF b = <<>> THEN 0 ELSE Head(b)
             s == Head(a) - y - c
         IN  <<s % Base>> \o BSubC(Tail(a),
                                   IF b = <<>> THEN b ELSE Tail(b),
                                   IF s < 0 THEN 1 ELSE 0)

BSub(a, b) == BNorm(BSubC(a, b, 0))

\* -1, 0, 1 as a < b, a = b, a > b
RECURSIVE BCmpFrom(_, _, _)
BCmpFrom(a, b, i) ==
    IF i = 0 THEN 0
    ELSE IF a[i] < b[i] THEN -1
    ELSE IF a[i] > b[i] THEN 1
    ELSE BCmpFrom(a, b, i - 1)

BCmp(a, b) ==
    IF Len(a) < Len(b) THEN -1
    ELSE IF Len(a) > Len(b) THEN 1
    ELSE BCmpFrom(a, b, Len(a))

\* a * k + c for a limb k
RECURSIVE BMulSmallC(_, _, _)
BMulSmallC(a, k, c) ==
    IF a = <<>> THEN (IF c = 0 THEN <<>> ELSE <<c>>)
    ELSE LET s == Head(a) * k + c
         IN  <<s % Base>> \o BMulSmallC(Tail(a), k, s \div Base)

BMulSmall(a, k) == IF k = 0 THEN <<>> ELSE BMulSmallC(a, k, 0)

\* a * Base
BShiftLimb(a) == IF a = <<>> THEN a ELSE <<0>> \o a

RECURSIVE BMul(_, _)
BMul(a, b) ==
    IF a = <<>> \/ b = <<>> THEN <<>>
    ELSE BAdd(BMulSmall(a, Head(b)), BShiftLimb(BMul(a, Tail(b))))

\* a * b for two naturals of four limbs each (two significands), column by
\* column: a column sum stays below 2^31
BMul4(a, b) ==
    LET c1 == a[1] * b[1]
        c2 == a[1] * b[2] + a[2] * b[1] + c1 \div Base
        c3 == a[1] * b[3] + a[2] * b[2] + a[3] * b[1] + c2 \div Base
        c4 == a[1] * b[4] + a[2] * b[3] + a[3] * b[2] + a[4] * b[1]
                  + c3 \div Base
        c5 == a[2] * b[4] + a[3] * b[3] + a[4] * b[2] + c4 \div Base
        c6 == a[3] * b[4] + a[4] * b[3] + c5 \div Base
        c7 == a[4] * b[4] + c6 \div Base
    IN  BNorm(<<c1 % Base, c2 % Base, c3 % Base, c4 % Base, c5 % Base,
                c6 % Base, c7 % Base, c7 \div Base>>)

\* quotient and remainder of a by a limb k > 0, from the top limb down
RECURSIVE BDivSmallFrom(_, _, _, _, _)
BDivSmallFrom(a, k, i, rem, quo) ==
    IF i = 0 THEN [q |-> BNorm(quo), r |-> rem]
    ELSE BDivSmallFrom(a, k, i - 1, (rem * Base + a[i]) % k,
                       <<(rem * Base + a[i]) \div k>> \o quo)

BDivSmall(a, k) == BDivSmallFrom(a, k, Len(a), 0, <<>>)

BZeros(n) == [i \in 1..n |-> 0]

\* a * 2^n
BShl(a, n) ==
    IF a = <<>> THEN a
    ELSE BZeros(n \div LimbBits) \o BMulSmall(a, 2^(n % LimbBits))

\* floor(a / 2^n)
BShr(a, n) ==
    LET k == n \div LimbBits
    IN  IF k >= Len(a) THEN <<>>
        ELSE BDivSmall(SubSeq(a, k + 1, Len(a)), 2^(n % LimbBits)).q

BBitLen(a) ==
    IF a = <<>> THEN 0
    ELSE LimbBits * (Len(a) - 1) + IntBitLen(a[Len(a)])

BIsOdd(a) == a /= <<>> /\ a[1] % 2 = 1

(***************************************************************************)
(* A JavaScript number: (-1)^[sign = -1] * mant * 2^exp, where mant is 0   *)
(* (with exp 0; the sign of a zero is kept) or has exactly Precision bits. *)
(***************************************************************************)
Precision == 53

\* bit n (from 0) of a
BBit(a, n) ==
    LET i == n \div LimbBits + 1
    IN  IF i > Len(a) THEN 0 ELSE (a[i] \div 2^(n % LimbBits)) % 2

\* whether a bit below bit n of a is set
BAnyBelow(a, n) ==
    LET i == n \div LimbBits + 1
    IN  \/ \E k \in 1..(i - 1) : k <= Len(a) /\ a[k] /= 0
        \/ i <= Len(a) /\ a[i] % 2^(n % LimbBits) /= 0

\* sign * M * 2^E rounded to the nearest number, ties to even
RoundNearestEven(sign, M, E) ==
    LET n == BBitLen(M)
    IN  IF n = 0 THEN [sign |-> sign, mant |-> <<>>, exp |-> 0]
        ELSE IF n <= Precision
        THEN [sign |-> sign, mant |-> BShl(M, Precision - n),
              exp |-> E - (Precision - n)]
        ELSE LET sh == n - Precision
                 q  == BShr(M, sh)
                 up == /\ BBit(M, sh - 1) = 1
                       /\ (BAnyBelow(M, sh - 1) \/ BIsOdd(q))
                 q2 == IF up THEN BAdd(q, <<1>>) ELSE q
             IN  IF BBitLen(q2) > Precision
                 THEN [sign |-> sign, mant |-> BShr(q2, 1), exp |-> E + sh + 1]
                 ELSE [sign |-> sign, mant |-> q2, exp |-> E + sh]

\* the number of an integer literal or of an integer typed into a field
FromInt(n) ==
    RoundNearestEven(IF n < 0 THEN -1 ELSE 1, BFromInt(IF n < 0 THEN -n ELSE n), 0)

\* x * y
FMul(x, y) ==
    LET s == IF x.sign = y.sign THEN 1 ELSE -1
    IN  IF x.mant = <<>> \/ y.mant = <<>>
        THEN [sign |-> s, mant |-> <<>>, exp |-> 0]
        ELSE RoundNearestEven(s, BMul4(x.mant, y.mant), x.exp + y.exp)

\* x + y
FAdd(x, y) ==
    LET e  == IF x.exp < y.exp THEN x.exp ELSE y.exp
        mx == BShl(x.mant, x.exp - e)
        my == BShl(y.mant, y.exp - e)
        c  == BCmp(mx, my)
    IN  IF x.sign = y.sign THEN RoundNearestEven(x.sign, BAdd(mx, my), e)
        ELSE IF c = 0 THEN [sign |-> 1, mant |-> <<>>, exp |-> 0]
        ELSE IF c > 0 THEN RoundNearestEven(x.sign, BSub(mx, my), e)
        ELSE RoundNearestEven(y.sign, BSub(my, mx), e)

FNeg(x) == [x EXCEPT !.sign = -x.sign]

\* x - y
FSub(x, y) == FAdd(x, FNeg(y))

\* the number of trailing zero bits of a non-zero natural
BTrailingZeros(a) ==
    LET i == CHOOSE j \in 1..Len(a) : a[j] /= 0 /\ \A k \in 1..(j - 1) : a[k] = 0
        t == CHOOSE k \in 0..LimbBits : a[i] % 2^k = 0 /\ a[i] % 2^(k + 1) /= 0
    IN  LimbBits * (i - 1) + t

\* x / y for a non-zero divisor whose odd part fits one limb (the code's only
\* divisor is the literal 100).  The quotient is taken to Precision + 3 bits or
\* more and a sticky bit records a non-zero remainder, so that the rounding is
\* that of the exact quotient.
FDiv(x, y) ==
    LET tz    == BTrailingZeros(y.mant)
        odd   == BShr(y.mant, tz)
        extra == LimbBits + 4
        res   == BDivSmall(BShl(x.mant, extra), odd[1])
        M     == BAdd(BShl(res.q, 1), IF res.r = 0 THEN <<>> ELSE <<1>>)
        E     == x.exp - (y.exp + tz) - extra - 1
    IN  IF x.sign = y.sign THEN RoundNearestEven(1, M, E)
        ELSE RoundNearestEven(-1, M, E)

\* -1, 0, 1 as x < y, x = y, x > y (the two zeros are equal)
FCmp(x, y) ==
    LET e  == IF x.exp < y.exp THEN x.exp ELSE y.exp
        mx == BShl(x.mant, x.exp - e)
        my == BShl(y.mant, y.exp - e)
        sx == IF mx = <<>> THEN 0 ELSE x.sign
        sy == IF my = <<>> THEN 0 ELSE y.sign
    IN  IF sx /= sy THEN (IF sx < sy THEN -1 ELSE 1)
        ELSE IF sx = 0 THEN 0
        ELSE sx * BCmp(mx, my)

FEq(x, y) == FCmp(x, y) = 0

FLeq(x, y) == FCmp(x, y) <= 0

(***************************************************************************)
(* The Customer form.  doc is frm.doc: the rows of the child table          *)
(* custom_ozerpan_discount (each an Ozerpan Discount row with a numeric    *)
(* rate), the field custom_total_discount_rate, and the record's name as   *)
(* a field the script never writes.  remaining_factor, d and               *)
(* total_discount_rate are assigned in calculate_total_discount without a  *)
(* declaration, so they are properties of the global object: undefined     *)
(* until the first run.  event is the grid event whose handler ran last    *)
(* and called tells whether that handler ran calculate_total_discount.     *)
(***************************************************************************)
VARIABLES doc, remaining_factor, d, total_discount_rate, event, called

customer_vars == <<doc, remaining_factor, d, total_discount_rate, event, called>>

\* the value of a global that was never assigned
undefined == [undefined |-> TRUE]

\* the rates a user types into a row
Rates == {-20, 10, 30, 100, 150}

\* the most rows the table holds in the model
MaxRows == 3

\* a row comes from the grid blank (rate 0) or as the duplicate of a row
AddRates(rows) == {0} \cup {rows[i].rate : i \in 1..Len(rows)}

RemoveAt(rows, i) == SubSeq(rows, 1, i - 1) \o SubSeq(rows, i + 1, Len(rows))

\* the literals 1.0 (and 1) and 100
One == FromInt(1)

Hundred == FromInt(100)

\* a factor that grows with the rate, which the statement on added rows must
\* tell from the code's
surcharge_factor(row) == FAdd(One, FDiv(FromInt(row.rate), Hundred))

\* 1 - d.rate / 100
discount_factor(row) == FSub(One, FDiv(FromInt(row.rate), Hundred))

\* discount_factor of every rate a row can carry, computed once
RECURSIVE FactorTable(_)
FactorTable(S) ==
    LET r == CHOOSE x \in S : TRUE
        f == r :> discount_factor([rate |-> r])
    IN  IF S = {r} THEN f ELSE f @@ FactorTable(S \ {r})

discount_factors == FactorTable(Rates \cup {0})

\* rates that add up instead of compounding, which the statement on a rate
\* of 100 must tell from the code's loop
RECURSIVE remaining_factor_added_up(_)
remaining_factor_added_up(discounts) ==
    IF discounts = <<>> THEN One
    ELSE FSub(remaining_factor_added_up(
                  SubSeq(discounts, 1, Len(discounts) - 1)),
              FDiv(FromInt(discounts[Len(discounts)].rate), Hundred))

\* a loop that assigns instead of multiplying, so that only the last row
\* counts, which the statement on orderings must tell from the code's loop
remaining_factor_of_last(discounts) ==
    IF discounts = <<>> THEN One
    ELSE discount_factors[discounts[Len(discounts)].rate]

\* remaining_factor after the loop: 1.0, then *= 1 - d.rate / 100 per row
RECURSIVE remaining_factor_after(_)
remaining_factor_after(discounts) ==
    IF discounts = <<>> THEN One
    ELSE LET n == Len(discounts)
         IN  FMul(remaining_factor_after(SubSeq(discounts, 1, n - 1)),
                  discount_factors[discounts[n].rate])

\* the discount as a fraction, not a percentage, which the statement on the
\* value written must tell from the code's
total_discount_fraction_of(rf) == FSub(One, rf)

\* (1 - remaining_factor) * 100
total_discount_rate_of(rf) == FMul(FSub(One, rf), Hundred)

\* the value calculate_total_discount passes to frm.set_value for these rows
aggregate(discounts) == total_discount_rate_of(remaining_factor_after(discounts))

\* calculate_total_discount(frm), frm.doc being frm_doc when it is called
calculate_total_discount(frm_doc) ==
    LET discounts == frm_doc.custom_ozerpan_discount
    IN  /\ remaining_factor' = remaining_factor_after(discounts)
        /\ d' = IF discounts = <<>> THEN d ELSE discounts[Len(discounts)]
        /\ total_discount_rate' = total_discount_rate_of(remaining_factor')
        /\ doc' = [frm_doc EXCEPT
                      !.custom_total_discount_rate = total_discount_rate']

CustomerInit ==
    /\ doc = [name |-> "CUST-0001",
              custom_ozerpan_discount |-> <<>>,
              custom_total_discount_rate |-> FromInt(0)]
    /\ remaining_factor = undefined
    /\ d = undefined
    /\ total_discount_rate = undefined
    /\ event = [type |-> "none"]
    /\ called = FALSE

\* the grid adds a row, then custom_ozerpan_discount_add(frm) logs
custom_ozerpan_discount_add ==
    /\ Len(doc.custom_ozerpan_discount) < MaxRows
    /\ \E r \in AddRates(doc.custom_ozerpan_discount) :
          /\ doc' = [doc EXCEPT !.custom_ozerpan_discount =
                                    Append(@, [rate |-> r])]
          /\ event' = [type |-> "add", rate |-> r]
    /\ called' = FALSE
    /\ UNCHANGED <<remaining_factor, d, total_discount_rate>>

\* the grid removes row i, then custom_ozerpan_discount_remove(frm) logs and
\* recomputes
custom_ozerpan_discount_remove ==
    \E i \in 1..Len(doc.custom_ozerpan_discount) :
       /\ calculate_total_discount(
              [doc EXCEPT !.custom_ozerpan_discount = RemoveAt(@, i)])
       /\ event' = [type |-> "remove", idx |-> i]
       /\ called' = TRUE

\* the user sets row i's rate, then rate(frm) logs and recomputes
rate ==
    \E i \in 1..Len(doc.custom_ozerpan_discount), r \in Rates :
       /\ doc.custom_ozerpan_discount[i].rate /= r
       /\ calculate_total_discount(
              [doc EXCEPT !.custom_ozerpan_discount[i].rate = r])
       /\ event' = [type |-> "rate", idx |-> i, rate |-> r]
       /\ called' = TRUE

(***************************************************************************)
(* The list views.  listview is the list-view script the page runs, named  *)
(* by its file; of each script the model has the remote call that shows a  *)
(* Processing dialog or that lacks an error handler, and TesDetay's as the *)
(* one with the shape of the rest.  clicks counts the user's triggers of   *)
(* the call, issued the frappe.call requests sent, pending those not yet   *)
(* answered, failed those answered with a failure; shown counts the        *)
(* Processing dialogs on display, successes and errors the notifications   *)
(* the script has displayed with frappe.msgprint.                          *)
(***************************************************************************)
VARIABLES listview, clicks, issued, pending, failed, shown, successes, errors

list_vars == <<listview, clicks, issued, pending, failed, shown, successes, errors>>

ListViews == {"item_list.js", "part_000", "part_001", "part_002", "part_003",
              "bom_list.js", "tesdetay_list.js"}

\* the most triggers of one call in the model
MaxClicks == 2

ListInit ==
    /\ listview \in ListViews
    /\ clicks = 0
    /\ issued = 0
    /\ pending = 0
    /\ failed = 0
    /\ shown = 0
    /\ successes = 0
    /\ errors = 0

\* frappe.call({...}) from a trigger of the user; with freeze: true the page
\* takes no trigger until the answer
frappe_call(freeze) ==
    /\ clicks < MaxClicks
    /\ freeze => pending = 0
    /\ clicks' = clicks + 1
    /\ issued' = issued + 1
    /\ pending' = pending + 1
    /\ UNCHANGED <<listview, failed, successes, errors>>

\* the answer of a request arrives: a success with or without r.message, or
\* a failure
answered(failure) ==
    /\ pending > 0
    /\ pending' = pending - 1
    /\ failed' = IF failure THEN failed + 1 ELSE failed
    /\ UNCHANGED <<listview, clicks, issued>>

\* loading.hide()
loading_hide == shown' = IF shown > 0 THEN shown - 1 ELSE 0

\* frappe.msgprint of the success notification, under if (r.message)
msgprint_success(message) ==
    /\ successes' = IF message THEN successes + 1 ELSE successes
    /\ UNCHANGED errors

\* frappe.msgprint of the error notification
msgprint_error == errors' = errors + 1 /\ UNCHANGED successes

\* item_list.js, Sync Items: a call with a callback and no error handler
item_addSyncCustomersBtn ==
    /\ listview = "item_list.js"
    /\ frappe_call(FALSE)
    /\ UNCHANGED shown

item_addSyncCustomersBtn_callback ==
    /\ listview = "item_list.js"
    /\ answered(FALSE)
    /\ \E message \in BOOLEAN : msgprint_success(message)
    /\ UNCHANGED shown

item_addSyncCustomersBtn_failure ==
    /\ listview = "item_list.js"
    /\ answered(TRUE)
    /\ UNCHANGED <<shown, successes, errors>>

\* part_002, Sync Customers: a call with a callback and no error handler
customer_addSyncCustomersBtn ==
    /\ listview = "part_002"
    /\ frappe_call(FALSE)
    /\ UNCHANGED shown

customer_addSyncCustomersBtn_callback ==
    /\ listview = "part_002"
    /\ answered(FALSE)
    /\ \E message \in BOOLEAN : msgprint_success(message)
    /\ UNCHANGED shown

customer_addSyncCustomersBtn_failure ==
    /\ listview = "part_002"
    /\ answered(TRUE)
    /\ UNCHANGED <<shown, successes, errors>>

\* tesdetay_list.js, Sync TesDetay: no dialog, a callback and an error handler
callSyncTesDetayApi ==
    /\ listview = "tesdetay_list.js"
    /\ frappe_call(TRUE)
    /\ UNCHANGED shown

callSyncTesDetayApi_callback ==
    /\ listview = "tesdetay_list.js"
    /\ answered(FALSE)
    /\ \E message \in BOOLEAN : msgprint_success(message)
    /\ UNCHANGED shown

callSyncTesDetayApi_error ==
    /\ listview = "tesdetay_list.js"
    /\ answered(TRUE)
    /\ msgprint_error
    /\ UNCHANGED shown

\* part_000, Sync Items: loading.show(), and loading.hide() in both handlers
callSyncItemsApi ==
    /\ listview = "part_000"
    /\ frappe_call(TRUE)
    /\ shown' = shown + 1

callSyncItemsApi_callback ==
    /\ listview = "part_000"
    /\ answered(FALSE)
    /\ loading_hide
    /\ \E message \in BOOLEAN : msgprint_success(message)

callSyncItemsApi_error ==
    /\ listview = "part_000"
    /\ answered(TRUE)
    /\ loading_hide
    /\ msgprint_error

\* part_003, Sync Customers: loading.show(), and loading.hide() in both
\* handlers
callSyncUsersApi ==
    /\ listview = "part_003"
    /\ frappe_call(TRUE)
    /\ shown' = shown + 1

callSyncUsersApi_callback ==
    /\ listview = "part_003"
    /\ answered(FALSE)
    /\ loading_hide
    /\ \E message \in BOOLEAN : msgprint_success(message)

callSyncUsersApi_error ==
    /\ listview = "part_003"
    /\ answered(TRUE)
    /\ loading_hide
    /\ msgprint_error

\* bom_list.js, Submit of the file dialog: loading.show(), and
\* loading.hide() in both handlers
bom_callUploadBomApi ==
    /\ listview = "bom_list.js"
    /\ frappe_call(TRUE)
    /\ shown' = shown + 1

bom_callUploadBomApi_callback ==
    /\ listview = "bom_list.js"
    /\ answered(FALSE)
    /\ loading_hide
    /\ \E message \in BOOLEAN : msgprint_success(message)

bom_callUploadBomApi_error ==
    /\ listview = "bom_list.js"
    /\ answered(TRUE)
    /\ loading_hide
    /\ msgprint_error

\* part_001, Submit of the file dialog: loading.show(), and no
\* loading.hide() in either handler
sales_order_callUploadBomApi ==
    /\ listview = "part_001"
    /\ frappe_call(TRUE)
    /\ shown' = shown + 1

sales_order_callUploadBomApi_callback ==
    /\ listview = "part_001"
    /\ answered(FALSE)
    /\ \E message \in BOOLEAN : msgprint_success(message)
    /\ UNCHANGED shown

sales_order_callUploadBomApi_error ==
    /\ listview = "part_001"
    /\ answered(TRUE)
    /\ msgprint_error
    /\ UNCHANGED shown

\* the user presses Hide in a Processing dialog: its primary_action
loading_primary_action ==
    /\ shown > 0
    /\ loading_hide
    /\ UNCHANGED <<listview, clicks, issued, pending, failed, successes, errors>>

(***************************************************************************)
(* The Sales Order form.  order is frm.doc: its customer and the two       *)
(* fields apply_discount writes.  total_discount is assigned in            *)
(* apply_discount without a declaration: one global for all its runs.      *)
(* lookups counts, per customer, the frappe.db.get_doc requests that       *)
(* apply_discount awaits; they are answered in any order.                  *)
(***************************************************************************)
VARIABLES order, total_discount, lookups

order_vars == <<order, total_discount, lookups>>

\* the Customer records on the server, by name
customer_docs ==
    [c \in {"CUST-0001", "CUST-0002", "CUST-0003"} |->
        [custom_total_discount_rate |->
            FromInt(IF c = "CUST-0001" THEN 10
                    ELSE IF c = "CUST-0002" THEN 25 ELSE 0)]]

Customers == DOMAIN customer_docs

\* the most requests awaited at once in the model
MaxLookups == 3

RECURSIVE Awaited(_, _)
Awaited(counts, S) ==
    IF S = {} THEN 0
    ELSE LET c == CHOOSE x \in S : TRUE
         IN  counts[c] + Awaited(counts, S \ {c})

OrderInit ==
    /\ order \in [customer : Customers,
                  apply_discount_on : {"Grand Total", "Net Total"},
                  additional_discount_percentage : {FromInt(0)}]
    /\ total_discount = undefined
    /\ lookups = [c \in Customers |-> 0]

\* rate(frm) of Sales Order Item logs and calls apply_discount(frm), which
\* runs up to its await: a request for the customer the order has now
sales_order_item_rate ==
    /\ Awaited(lookups, Customers) < MaxLookups
    /\ lookups' = [lookups EXCEPT ![order.customer] = @ + 1]
    /\ UNCHANGED <<order, total_discount>>

\* apply_discount(frm) after its await: the request for customer c is
\* answered and the two fields are set from the answer
apply_discount ==
    \E c \in Customers :
       /\ lookups[c] > 0
       /\ lookups' = [lookups EXCEPT ![c] = @ - 1]
       /\ total_discount' = customer_docs[c].custom_total_discount_rate
       /\ order' = [order EXCEPT
                       !.apply_discount_on = "Grand Total",
                       !.additional_discount_percentage = total_discount']

\* the user sets another customer on the order: the script has no handler
\* of the customer field
customer ==
    \E c \in Customers \ {order.customer} :
       /\ order' = [order EXCEPT !.customer = c]
       /\ UNCHANGED <<total_discount, lookups>>

vars == <<customer_vars, list_vars, order_vars>>

Init == CustomerInit /\ ListInit /\ OrderInit

CustomerNext ==
    \/ custom_ozerpan_discount_add /\ UNCHANGED <<list_vars, order_vars>>
    \/ custom_ozerpan_discount_remove /\ UNCHANGED <<list_vars, order_vars>>
    \/ rate /\ UNCHANGED <<list_vars, order_vars>>

ListNext ==
    \/ item_addSyncCustomersBtn /\ UNCHANGED <<customer_vars, order_vars>>
    \/ item_addSyncCustomersBtn_callback /\ UNCHANGED <<customer_vars, order_vars>>
    \/ item_addSyncCustomersBtn_failure /\ UNCHANGED <<customer_vars, order_vars>>
    \/ customer_addSyncCustomersBtn /\ UNCHANGED <<customer_vars, order_vars>>
    \/ customer_addSyncCustomersBtn_callback /\ UNCHANGED <<customer_vars, order_vars>>
    \/ customer_addSyncCustomersBtn_failure /\ UNCHANGED <<customer_vars, order_vars>>
    \/ callSyncTesDetayApi /\ UNCHANGED <<customer_vars, order_vars>>
    \/ callSyncTesDetayApi_callback /\ UNCHANGED <<customer_vars, order_vars>>
    \/ callSyncTesDetayApi_error /\ UNCHANGED <<customer_vars, order_vars>>
    \/ callSyncItemsApi /\ UNCHANGED <<customer_vars, order_vars>>
    \/ callSyncItemsApi_callback /\ UNCHANGED <<customer_vars, order_vars>>
    \/ callSyncItemsApi_error /\ UNCHANGED <<customer_vars, order_vars>>
    \/ callSyncUsersApi /\ UNCHANGED <<customer_vars, order_vars>>
    \/ callSyncUsersApi_callback /\ UNCHANGED <<customer_vars, order_vars>>
    \/ callSyncUsersApi_error /\ UNCHANGED <<customer_vars, order_vars>>
    \/ bom_callUploadBomApi /\ UNCHANGED <<customer_vars, order_vars>>
    \/ bom_callUploadBomApi_callback /\ UNCHANGED <<customer_vars, order_vars>>
    \/ bom_callUploadBomApi_error /\ UNCHANGED <<customer_vars, order_vars>>
    \/ sales_order_callUploadBomApi /\ UNCHANGED <<customer_vars, order_vars>>
    \/ sales_order_callUploadBomApi_callback /\ UNCHANGED <<customer_vars, order_vars>>
    \/ sales_order_callUploadBomApi_error /\ UNCHANGED <<customer_vars, order_vars>>
    \/ loading_primary_action /\ UNCHANGED <<customer_vars, order_vars>>

OrderNext ==
    \/ sales_order_item_rate /\ UNCHANGED <<customer_vars, list_vars>>
    \/ apply_discount /\ UNCHANGED <<customer_vars, list_vars>>
    \/ customer /\ UNCHANGED <<customer_vars, list_vars>>

Next == CustomerNext \/ ListNext \/ OrderNext

Spec == Init /\ [][Next]_vars

\* one page at a time: the pages that are not open stay as they start
ListAtRest == listview = "item_list.js"

OrderAtRest ==
    order = [customer |-> "CUST-0001", apply_discount_on |-> "Grand Total",
             additional_discount_percentage |-> FromInt(0)]

\* the Customer form
CustomerFormInit == Init /\ ListAtRest /\ OrderAtRest

CustomerSpec == CustomerFormInit /\ [][CustomerNext]_vars

\* the list views
ListViewInit == Init /\ OrderAtRest

ListSpec == ListViewInit /\ [][ListNext]_vars

\* the Sales Order form
OrderFormInit == Init /\ ListAtRest

OrderSpec == OrderFormInit /\ [][OrderNext]_vars

(***************************************************************************)
(* Exact arithmetic for the statements below: the compounded discount of   *)
(* integer rates as a fraction, and the distance of a number from it.      *)
(***************************************************************************)
Rows == doc.custom_ozerpan_discount

Total == doc.custom_total_discount_rate

Zero == FromInt(0)

\* the product of the (100 - rate) as a sign and a magnitude
RECURSIVE ExactProduct(_)
ExactProduct(rows) ==
    IF rows = <<>> THEN [sign |-> 1, mag |-> <<1>>]
    ELSE [sign |-> IF rows[Len(rows)].rate > 100
                   THEN -ExactProduct(SubSeq(rows, 1, Len(rows) - 1)).sign
                   ELSE ExactProduct(SubSeq(rows, 1, Len(rows) - 1)).sign,
          mag  |-> BMulSmall(ExactProduct(SubSeq(rows, 1, Len(rows) - 1)).mag,
                             IF rows[Len(rows)].rate > 100
                             THEN rows[Len(rows)].rate - 100
                             ELSE 100 - rows[Len(rows)].rate)]

\* 100^n
RECURSIVE Pow100(_)
Pow100(n) == IF n = 0 THEN <<1>> ELSE BMulSmall(Pow100(n - 1), 100)

\* S with (1 - P) * 100 = S / 100^n for P the product of the (1 - rate/100):
\* S = 100 * (100^n - product of the (100 - rate))
ExactNumerator(rows) ==
    LET P == ExactProduct(rows)
        D == Pow100(Len(rows))
    IN  IF P.sign = -1
        THEN [sign |-> 1, mag |-> BMulSmall(BAdd(D, P.mag), 100)]
        ELSE IF BCmp(D, P.mag) >= 0
        THEN [sign |-> 1, mag |-> BMulSmall(BSub(D, P.mag), 100)]
        ELSE [sign |-> -1, mag |-> BMulSmall(BSub(P.mag, D), 100)]

BAbsDiff(a, b) == IF BCmp(a, b) >= 0 THEN BSub(a, b) ELSE BSub(b, a)

\* | x - S / D | <= K * 2^-Precision, for a number x, a signed natural S and
\* naturals D > 0 and K
WithinOfExact(x, S, D, K) ==
    LET up   == IF x.exp > 0 THEN x.exp ELSE 0
        dn   == IF x.exp < 0 THEN -x.exp ELSE 0
        xs   == BShl(BMul(x.mant, D), up)
        ss   == BShl(S.mag, dn)
        diff == IF x.sign = S.sign \/ xs = <<>> \/ ss = <<>>
                THEN BAbsDiff(xs, ss) ELSE BAdd(xs, ss)
    IN  BCmp(BShl(diff, Precision), BShl(BMul(BFromInt(K), D), dn)) <= 0

\* | x - y | <= K * 2^-Precision, for numbers x and y
WithinOfEachOther(x, y, K) ==
    LET e    == IF x.exp < y.exp THEN x.exp ELSE y.exp
        xs   == BShl(x.mant, x.exp - e)
        ys   == BShl(y.mant, y.exp - e)
        diff == IF x.sign = y.sign \/ xs = <<>> \/ ys = <<>>
                THEN BAbsDiff(xs, ys) ELSE BAdd(xs, ys)
    IN  IF e + Precision >= 0
        THEN BCmp(BShl(diff, e + Precision), BFromInt(K)) <= 0
        ELSE BCmp(diff, BShl(BFromInt(K), -(e + Precision))) <= 0

\* the rounding error of calculate_total_discount on n rows with rates in
\* 0..200, in units of 2^-Precision: each factor is off by at most 3/2 units,
\* each product adds 1/2, the subtraction from 1 adds 1, and the product by
\* 100 scales by 100 and adds 128
ErrorBound(n) == 200 * n + 228

RatesWithin(rows, lo, hi) ==
    \A i \in 1..Len(rows) : lo <= rows[i].rate /\ rows[i].rate <= hi

\* the orderings of a sequence of rows
Orderings(rows) ==
    LET n == Len(rows)
    IN  { [i \in 1..n |-> rows[p[i]]] :
            p \in { f \in [1..n -> 1..n] : \A i, j \in 1..n : f[i] = f[j] => i = j } }

InsertAt(rows, i, row) ==
    SubSeq(rows, 1, i - 1) \o <<row>> \o SubSeq(rows, i, Len(rows))

\* what the grid did to the rows before the handler of event e ran
GridEdit(rows, e) ==
    IF e.type = "add" THEN Append(rows, [rate |-> e.rate])
    ELSE IF e.type = "remove" THEN RemoveAt(rows, e.idx)
    ELSE IF e.type = "rate" THEN [rows EXCEPT ![e.idx].rate = e.rate]
    ELSE rows

(***************************************************************************)
(* C1.  As stated: calculate_total_discount writes exactly (1 - P) * 100,  *)
(* P the product of the (1 - rate/100), and 0 for no rows.                 *)
(***************************************************************************)
C1_WritesExactValue ==
    called => WithinOfExact(Total, ExactNumerator(Rows), Pow100(Len(Rows)), 0)

\* C1, amended: for no rows the value written is exactly 0, and for n rows
\* with rates in 0..200 it is (1 - P) * 100 up to the rounding of the double
\* arithmetic: off by at most (200 n + 228) * 2^-53.
C1_WritesValueUpToRounding ==
    called =>
       /\ Rows = <<>> => Total = Zero
       /\ RatesWithin(Rows, 0, 200) =>
             WithinOfExact(Total, ExactNumerator(Rows), Pow100(Len(Rows)),
                           ErrorBound(Len(Rows)))

C1_Witness ==
    /\ called
    /\ Len(Rows) >= 2
    /\ RatesWithin(Rows, 0, 200)
    /\ ~WithinOfExact(Total, ExactNumerator(Rows), Pow100(Len(Rows)), 0)

(***************************************************************************)
(* C2.  After every handler, custom_total_discount_rate is the aggregate   *)
(* of the rows now in custom_ozerpan_discount.                             *)
(***************************************************************************)
C2_AggregateNeverStale == FEq(Total, aggregate(Rows))

(***************************************************************************)
(* C3.  Each of the events row added, row removed and rate edited runs     *)
(* calculate_total_discount in its handler.                                *)
(***************************************************************************)
C3_EveryChangeRecomputes ==
    event.type \in {"add", "remove", "rate"} => called

(***************************************************************************)
(* C4.  As stated: adding a row with rate > 0 to a non-empty sequence      *)
(* never decreases the aggregate, for all rates (none is validated).       *)
(***************************************************************************)
C4_AddingNeverDecreases ==
    Rows /= <<>> =>
       \A r \in {x \in Rates : x > 0}, i \in 1..(Len(Rows) + 1) :
          FLeq(aggregate(Rows), aggregate(InsertAt(Rows, i, [rate |-> r])))

\* C4, amended: adding a row with rate > 0, at any position, to a non-empty
\* sequence whose remaining factor is not negative (as when no rate exceeds
\* 100) never decreases the aggregate.
C4_AddingNeverDecreasesNonNegative ==
    (Rows /= <<>> /\ FLeq(Zero, remaining_factor_after(Rows))) =>
       \A r \in {x \in Rates : x > 0}, i \in 1..(Len(Rows) + 1) :
          FLeq(aggregate(Rows), aggregate(InsertAt(Rows, i, [rate |-> r])))

C4_Witness ==
    /\ called
    /\ Rows /= <<>>
    /\ \E i \in 1..Len(Rows) : Rows[i].rate > 100
    /\ FLeq(Zero, remaining_factor_after(Rows))
    /\ \E r \in Rates :
          ~FLeq(aggregate(Append(Rows, [rate |-> r])), aggregate(Rows))

(***************************************************************************)
(* C5.  If a row has rate exactly 100, the aggregate written is 100,       *)
(* wherever that row stands and whatever the other rates are.              *)
(***************************************************************************)
C5_FullDiscountAbsorbs ==
    (called /\ \E i \in 1..Len(Rows) : Rows[i].rate = 100) =>
       FEq(Total, Hundred)

C5_Witness ==
    /\ called
    /\ Len(Rows) >= 3
    /\ Rows[1].rate = 100
    /\ \E i \in 2..Len(Rows) : Rows[i].rate \notin {0, 100}
    /\ \E i \in 2..Len(Rows) : Rows[i].rate > 100

(***************************************************************************)
(* C6.  As stated: every ordering of the rows gives the same aggregate.    *)
(***************************************************************************)
C6_OrderIndependent ==
    \A p \in Orderings(Rows) : FEq(aggregate(p), aggregate(Rows))

\* C6, amended: two orderings of at most two rows give the same aggregate;
\* two orderings of n rows with rates in 0..200 give aggregates that differ
\* by rounding only: by at most 2 * (200 n + 228) * 2^-53.
C6_OrderIndependentUpToRounding ==
    \A p \in Orderings(Rows) :
       /\ Len(Rows) <= 2 => FEq(aggregate(p), aggregate(Rows))
       /\ RatesWithin(Rows, 0, 200) =>
             WithinOfEachOther(aggregate(p), aggregate(Rows),
                               2 * ErrorBound(Len(Rows)))

C6_Witness ==
    /\ called
    /\ Len(Rows) >= 3
    /\ RatesWithin(Rows, 0, 200)
    /\ \E p \in Orderings(Rows) : ~FEq(aggregate(p), Total)

(***************************************************************************)
(* C7.  A run of calculate_total_discount changes only                     *)
(* custom_total_discount_rate: the rows are those the grid left, the other *)
(* fields of the record and the script's global variables keep their       *)
(* values.                                                                 *)
(***************************************************************************)
C7_OnlyTotalChanges ==
    [][called' =>
          /\ doc'.custom_ozerpan_discount =
                GridEdit(doc.custom_ozerpan_discount, event')
          /\ doc'.name = doc.name
          /\ remaining_factor' = remaining_factor
          /\ d' = d
          /\ total_discount_rate' = total_discount_rate]_vars

(***************************************************************************)
(* C8.  Every failed remote call is reported by an error notification and  *)
(* is not retried: requests are sent by the user's triggers only.          *)
(***************************************************************************)
C8_FailureIsReportedAndNotRetried ==
    /\ errors = failed
    /\ issued = clicks

(***************************************************************************)
(* C9.  When the remote call that opened a Processing dialog is answered,  *)
(* with success or failure, its handler hides the dialog: no Processing    *)
(* dialog is on display while no call is awaited.                          *)
(***************************************************************************)
C9_ProcessingDialogHiddenOnCompletion ==
    (issued > 0 /\ pending = 0) => shown = 0

(***************************************************************************)
(* C10.  Once apply_discount has run and no customer lookup is awaited,    *)
(* additional_discount_percentage is the custom_total_discount_rate of the *)
(* customer now on the order and apply_discount_on is "Grand Total".       *)
(***************************************************************************)
C10_DiscountOfCurrentCustomer ==
    (total_discount /= undefined /\ Awaited(lookups, Customers) = 0) =>
       /\ order.additional_discount_percentage =
             customer_docs[order.customer].custom_total_discount_rate
       /\ order.apply_discount_on = "Grand Total"

====
